---- MODULE Spec2Model ----
(***************************************************************************)
(* Model of the fee config manager precompile                              *)
(* (precompile/fee_config_manager.go).                                     *)
(*                                                                         *)
(* Bytes are integers 0..255, a common.Hash is a sequence of HashLength    *)
(* bytes (big-endian), a *big.Int is the sequence of bytes of its          *)
(* magnitude without leading zeros (what big.Int.Bytes returns), a uint64  *)
(* is such a sequence of at most 8 bytes.  A nil pointer or nil slice is   *)
(* the sequence Nil.                                                       *)
(***************************************************************************)
EXTENDS Integers, Sequences, FiniteSets, TLC

(***************************************************************************)
(* Bounds of the model.                                                    *)
(***************************************************************************)
\* block numbers the host supplies are 1..MaxBlock (or none at all)
MaxBlock == 2
\* activation timestamps of the compared configs are 1..MaxTimestamp
MaxTimestamp == 2
\* suppliedGas is drawn from cost - GasSlack .. cost + GasSlack
GasSlack == 1

(***************************************************************************)
(* Constants of the program.                                               *)
(***************************************************************************)
HashLength == 32
AddressLength == 20
Uint64Length == 8

minFeeConfigFieldKey == 1
gasLimitKey == 1
targetBlockRateKey == 2
minBaseFeeKey == 3
targetGasKey == 4
baseFeeChangeDenominatorKey == 5
minBlockGasCostKey == 6
maxBlockGasCostKey == 7
blockGasCostStepKey == 8
numFeeConfigField == 8

feeConfigInputLen == HashLength * numFeeConfigField

writeGasCostPerSlot == 20000
readGasCostPerSlot == 5000

\* the cost without the slot of last changed at
SetFeeConfigGasCost_FieldsOnly == writeGasCostPerSlot * numFeeConfigField

SetFeeConfigGasCost == writeGasCostPerSlot * (numFeeConfigField + 1)
GetFeeConfigGasCost == readGasCostPerSlot * numFeeConfigField
GetLastChangedAtGasCost == readGasCostPerSlot

\* a nil pointer, slice or block number
Nil == <<-1>>
\* a nil error
NoErr == "nil"

ErrOutOfGas == "out of gas"
ErrWriteProtection == "write protection"
ErrCannotChangeFee == "non-enabled cannot change fee config"
ErrInvalidInputLength == "invalid input length for fee config input"
ErrBlockNumberNil == "blockNumber cannot be nil"
ErrInvalidFeeConfig == "invalid fee config"

(***************************************************************************)
(* Bytes, hashes and big integers.                                         *)
(***************************************************************************)
RECURSIVE StripZeros(_)
\* big.Int.SetBytes: the magnitude of a big-endian byte string
StripZeros(b) ==
    IF b = <<>> THEN <<>>
    ELSE IF Head(b) = 0 THEN StripZeros(Tail(b))
    ELSE b

SetBytes(b) == StripZeros(b)

\* common.BytesToHash: crops from the left when too long, left-pads with zeros
BytesToHash(b) ==
    IF Len(b) > HashLength
    THEN SubSeq(b, Len(b) - HashLength + 1, Len(b))
    ELSE [i \in 1..HashLength |->
            IF i <= HashLength - Len(b) THEN 0 ELSE b[i - (HashLength - Len(b))]]

\* common.BigToHash(b) = BytesToHash(b.Bytes())
BigToHash(x) == BytesToHash(x)

\* common.Hash.Big()
HashBig(h) == SetBytes(h)

\* big.Int.Uint64(): the low 64 bits of the magnitude
BigUint64(x) ==
    IF Len(x) > Uint64Length
    THEN StripZeros(SubSeq(x, Len(x) - Uint64Length + 1, Len(x)))
    ELSE x

\* new(big.Int).SetUint64(u)
SetUint64(u) == u

RECURSIVE FromNat(_)
\* the big integer of a small natural number
FromNat(n) == IF n = 0 THEN <<>> ELSE FromNat(n \div 256) \o <<n % 256>>

RECURSIVE LexLess(_, _)
LexLess(x, y) ==
    IF x = <<>> THEN FALSE
    ELSE IF Head(x) # Head(y) THEN Head(x) < Head(y)
    ELSE LexLess(Tail(x), Tail(y))

\* big.Int.Cmp on magnitudes: -1, 0 or 1
BigCmp(x, y) ==
    IF x = y THEN 0
    ELSE IF Len(x) # Len(y) THEN (IF Len(x) < Len(y) THEN -1 ELSE 1)
    ELSE IF LexLess(x, y) THEN -1 ELSE 1

Big0 == <<>>
ZeroHash == BytesToHash(<<>>)


(***************************************************************************)
(* Addresses, allow-list roles and the contract's storage.                 *)
(***************************************************************************)
\* a 20-byte address whose last byte is n
Addr(n) == [i \in 1..AddressLength |-> IF i = AddressLength THEN n ELSE 0]

AddrA == Addr(1)
AddrB == Addr(2)
Addresses == {AddrA, AddrB}

\* common.Address.Hash(): the address left-padded to a hash
AddressHash(a) == BytesToHash(a)

AllowListNoRole == BigToHash(FromNat(0))
AllowListEnabled == BigToHash(FromNat(1))
AllowListAdmin == BigToHash(FromNat(2))
AllowListRoles == {AllowListNoRole, AllowListEnabled, AllowListAdmin}

\* AllowListRole.IsEnabled
IsEnabled(role) == role \in {AllowListAdmin, AllowListEnabled}

\* the slot key of field i as the hash of the number i: the tag in the last byte
FieldKey_LowByte(i) == BytesToHash(<<i>>)

\* common.Hash{byte(i)}: the slot key of fee config field i
FieldKey(i) == [j \in 1..HashLength |-> IF j = 1 THEN i ELSE 0]

\* common.Hash{'l', 'c', 'a'}
feeConfigLastChangedAtKey ==
    [j \in 1..HashLength |->
        IF j = 1 THEN 108 ELSE IF j = 2 THEN 99 ELSE IF j = 3 THEN 97 ELSE 0]

FieldKeys == {FieldKey(i) : i \in minFeeConfigFieldKey..numFeeConfigField}
RoleKeys == {AddressHash(a) : a \in Addresses}

\* the slots of the contract at FeeConfigManagerAddress that the program touches
StorageKeys == FieldKeys \cup {feeConfigLastChangedAtKey} \cup RoleKeys

\* StateDB.GetState(FeeConfigManagerAddress, key)
GetState(stateDB, key) == stateDB[key]

\* StateDB.SetState(FeeConfigManagerAddress, key, value)
SetState(stateDB, key, value) == [stateDB EXCEPT ![key] = value]

\* the storage of a contract nothing was written to
EmptyStateDB == [k \in StorageKeys |-> ZeroHash]

\* getAllowListStatus(stateDB, FeeConfigManagerAddress, address)
getAllowListStatus(stateDB, address) == GetState(stateDB, AddressHash(address))

\* setAllowListRole(stateDB, FeeConfigManagerAddress, address, role)
setAllowListRole(stateDB, address, role) ==
    SetState(stateDB, AddressHash(address), role)

GetFeeConfigManagerStatus(stateDB, address) == getAllowListStatus(stateDB, address)

\* SetFeeConfigManagerStatus that never takes a role away
SetFeeConfigManagerStatus_KeepsRole(stateDB, address, role) ==
    IF role = AllowListNoRole THEN stateDB
    ELSE setAllowListRole(stateDB, address, role)

SetFeeConfigManagerStatus(stateDB, address, role) ==
    setAllowListRole(stateDB, address, role)

(***************************************************************************)
(* commontype.FeeConfig.                                                   *)
(***************************************************************************)
FeeConfig(gl, tbr, mbf, tg, bfcd, minbgc, maxbgc, bgcs) ==
    [GasLimit |-> gl, TargetBlockRate |-> tbr, MinBaseFee |-> mbf,
     TargetGas |-> tg, BaseFeeChangeDenominator |-> bfcd,
     MinBlockGasCost |-> minbgc, MaxBlockGasCost |-> maxbgc,
     BlockGasCostStep |-> bgcs]

\* commontype.FeeConfig{}: nil big integers, zero target block rate
EmptyFeeConfig == FeeConfig(Nil, <<>>, Nil, Nil, Nil, Nil, Nil, Nil)

\* the big-integer fields, in field order
BigFields(fc) ==
    <<fc.GasLimit, fc.MinBaseFee, fc.TargetGas, fc.BaseFeeChangeDenominator,
      fc.MinBlockGasCost, fc.MaxBlockGasCost, fc.BlockGasCostStep>>

\* commontype.FeeConfig.Verify: NoErr or the error
FeeConfigVerify(fc) ==
    IF \E i \in 1..7 : BigFields(fc)[i] = Nil THEN ErrInvalidFeeConfig
    ELSE IF BigCmp(fc.GasLimit, Big0) # 1 THEN ErrInvalidFeeConfig
    ELSE IF fc.TargetBlockRate = <<>> THEN ErrInvalidFeeConfig
    ELSE IF BigCmp(fc.MinBaseFee, Big0) = -1 THEN ErrInvalidFeeConfig
    ELSE IF BigCmp(fc.TargetGas, Big0) # 1 THEN ErrInvalidFeeConfig
    ELSE IF BigCmp(fc.BaseFeeChangeDenominator, Big0) # 1 THEN ErrInvalidFeeConfig
    ELSE IF BigCmp(fc.MinBlockGasCost, Big0) = -1 THEN ErrInvalidFeeConfig
    ELSE IF BigCmp(fc.MinBlockGasCost, fc.MaxBlockGasCost) = 1 THEN ErrInvalidFeeConfig
    ELSE IF BigCmp(fc.BlockGasCostStep, Big0) = -1 THEN ErrInvalidFeeConfig
    ELSE IF \E i \in 1..7 : Len(BigFields(fc)[i]) > HashLength THEN ErrInvalidFeeConfig
    ELSE NoErr

(***************************************************************************)
(* Packing and unpacking.                                                  *)
(***************************************************************************)
\* packOrderedHashes: the hashes one after the other
RECURSIVE packOrderedHashes(_)
packOrderedHashes(hashes) ==
    IF hashes = <<>> THEN <<>>
    ELSE Head(hashes) \o packOrderedHashes(Tail(hashes))

\* returnPackedHash(packed, index): the index-th (from 0) 32-byte word
returnPackedHash(packed, index) ==
    SubSeq(packed, index * HashLength + 1, (index + 1) * HashLength)

\* CalculateFunctionSelector: the first four bytes of the Keccak-256 hash of the signature
setFeeConfigSignature == <<143, 16, 181, 134>>
getFeeConfigSignature == <<95, 187, 192, 210>>
getFeeConfigLastChangedAtSignature == <<158, 5, 84, 154>>

\* packOrderedHashesWithSelector: the selector, then the hashes
packOrderedHashesWithSelector(functionSelector, hashes) ==
    functionSelector \o packOrderedHashes(hashes)

\* the hashes of packFeeConfigHelper, in field order
FeeConfigHashes(feeConfig) ==
    << BigToHash(feeConfig.GasLimit),
       BigToHash(SetUint64(feeConfig.TargetBlockRate)),
       BigToHash(feeConfig.MinBaseFee),
       BigToHash(feeConfig.TargetGas),
       BigToHash(feeConfig.BaseFeeChangeDenominator),
       BigToHash(feeConfig.MinBlockGasCost),
       BigToHash(feeConfig.MaxBlockGasCost),
       BigToHash(feeConfig.BlockGasCostStep) >>

\* packFeeConfigHelper(feeConfig, true)
PackSetFeeConfig(feeConfig) ==
    packOrderedHashesWithSelector(setFeeConfigSignature, FeeConfigHashes(feeConfig))

\* PackFeeConfig that packs the two block gas costs in the wrong order
PackFeeConfig_Swapped(feeConfig) ==
    packOrderedHashes(<<
        BigToHash(feeConfig.GasLimit),
        BigToHash(SetUint64(feeConfig.TargetBlockRate)),
        BigToHash(feeConfig.MinBaseFee),
        BigToHash(feeConfig.TargetGas),
        BigToHash(feeConfig.BaseFeeChangeDenominator),
        BigToHash(feeConfig.MaxBlockGasCost),
        BigToHash(feeConfig.MinBlockGasCost),
        BigToHash(feeConfig.BlockGasCostStep) >>)

\* packFeeConfigHelper(feeConfig, false)
PackFeeConfig(feeConfig) ==
    packOrderedHashes(<<
        BigToHash(feeConfig.GasLimit),
        BigToHash(SetUint64(feeConfig.TargetBlockRate)),
        BigToHash(feeConfig.MinBaseFee),
        BigToHash(feeConfig.TargetGas),
        BigToHash(feeConfig.BaseFeeChangeDenominator),
        BigToHash(feeConfig.MinBlockGasCost),
        BigToHash(feeConfig.MaxBlockGasCost),
        BigToHash(feeConfig.BlockGasCostStep) >>)

\* the value the decoding loop gives field i of the record
UnpackField(input, i) ==
    IF i = targetBlockRateKey
    THEN BigUint64(SetBytes(returnPackedHash(input, i - 1)))
    ELSE SetBytes(returnPackedHash(input, i - 1))

\* UnpackFeeConfigInput that rejects only the inputs that are too short
UnpackFeeConfigInput_AtLeast(input) ==
    IF Len(input) < feeConfigInputLen
    THEN [feeConfig |-> EmptyFeeConfig, err |-> ErrInvalidInputLength]
    ELSE [feeConfig |->
            FeeConfig(UnpackField(input, gasLimitKey),
                      UnpackField(input, targetBlockRateKey),
                      UnpackField(input, minBaseFeeKey),
                      UnpackField(input, targetGasKey),
                      UnpackField(input, baseFeeChangeDenominatorKey),
                      UnpackField(input, minBlockGasCostKey),
                      UnpackField(input, maxBlockGasCostKey),
                      UnpackField(input, blockGasCostStepKey)),
          err |-> NoErr]

UnpackFeeConfigInput(input) ==
    IF Len(input) # feeConfigInputLen
    THEN [feeConfig |-> EmptyFeeConfig, err |-> ErrInvalidInputLength]
    ELSE [feeConfig |->
            FeeConfig(UnpackField(input, gasLimitKey),
                      UnpackField(input, targetBlockRateKey),
                      UnpackField(input, minBaseFeeKey),
                      UnpackField(input, targetGasKey),
                      UnpackField(input, baseFeeChangeDenominatorKey),
                      UnpackField(input, minBlockGasCostKey),
                      UnpackField(input, maxBlockGasCostKey),
                      UnpackField(input, blockGasCostStepKey)),
          err |-> NoErr]


(***************************************************************************)
(* The stored fee config.                                                  *)
(***************************************************************************)
\* the value the reading loop gives field i of the record
StoredField(stateDB, i) ==
    IF i = targetBlockRateKey
    THEN BigUint64(HashBig(GetState(stateDB, FieldKey(i))))
    ELSE HashBig(GetState(stateDB, FieldKey(i)))

GetStoredFeeConfig(stateDB) ==
    FeeConfig(StoredField(stateDB, gasLimitKey),
              StoredField(stateDB, targetBlockRateKey),
              StoredField(stateDB, minBaseFeeKey),
              StoredField(stateDB, targetGasKey),
              StoredField(stateDB, baseFeeChangeDenominatorKey),
              StoredField(stateDB, minBlockGasCostKey),
              StoredField(stateDB, maxBlockGasCostKey),
              StoredField(stateDB, blockGasCostStepKey))

GetFeeConfigLastChangedAt(stateDB) ==
    HashBig(GetState(stateDB, feeConfigLastChangedAtKey))

\* the word the storing loop writes for field i
FieldInput(feeConfig, i) ==
    CASE i = gasLimitKey -> BigToHash(feeConfig.GasLimit)
      [] i = targetBlockRateKey -> BigToHash(SetUint64(feeConfig.TargetBlockRate))
      [] i = minBaseFeeKey -> BigToHash(feeConfig.MinBaseFee)
      [] i = targetGasKey -> BigToHash(feeConfig.TargetGas)
      [] i = baseFeeChangeDenominatorKey -> BigToHash(feeConfig.BaseFeeChangeDenominator)
      [] i = minBlockGasCostKey -> BigToHash(feeConfig.MinBlockGasCost)
      [] i = maxBlockGasCostKey -> BigToHash(feeConfig.MaxBlockGasCost)
      [] i = blockGasCostStepKey -> BigToHash(feeConfig.BlockGasCostStep)

RECURSIVE StoreFields(_, _, _)
\* the storing loop, from field i on
StoreFields(stateDB, feeConfig, i) ==
    IF i > numFeeConfigField THEN stateDB
    ELSE StoreFields(SetState(stateDB, FieldKey(i), FieldInput(feeConfig, i)),
                     feeConfig, i + 1)

\* StoreFeeConfig that leaves the last-changed-at slot alone
StoreFeeConfig_NoLastChangedAt(stateDB, feeConfig, blockNumber) ==
    IF FeeConfigVerify(feeConfig) # NoErr
    THEN [stateDB |-> stateDB, err |-> FeeConfigVerify(feeConfig)]
    ELSE LET written == StoreFields(stateDB, feeConfig, minFeeConfigFieldKey)
         IN  IF blockNumber = Nil
             THEN [stateDB |-> written, err |-> ErrBlockNumberNil]
             ELSE [stateDB |-> written, err |-> NoErr]

\* StoreFeeConfig that accepts a nil block number and leaves last changed at alone
StoreFeeConfig_NoNilCheck(stateDB, feeConfig, blockNumber) ==
    IF FeeConfigVerify(feeConfig) # NoErr
    THEN [stateDB |-> stateDB, err |-> FeeConfigVerify(feeConfig)]
    ELSE LET written == StoreFields(stateDB, feeConfig, minFeeConfigFieldKey)
         IN  IF blockNumber = Nil
             THEN [stateDB |-> written, err |-> NoErr]
             ELSE [stateDB |-> SetState(written, feeConfigLastChangedAtKey,
                                        BigToHash(blockNumber)),
                   err |-> NoErr]

\* StoreFeeConfig that records the block number before it validates the record
StoreFeeConfig_LastChangedAtFirst(stateDB, feeConfig, blockNumber) ==
    LET marked == IF blockNumber = Nil THEN stateDB
                  ELSE SetState(stateDB, feeConfigLastChangedAtKey,
                                BigToHash(blockNumber))
    IN  IF FeeConfigVerify(feeConfig) # NoErr
        THEN [stateDB |-> marked, err |-> FeeConfigVerify(feeConfig)]
        ELSE IF blockNumber = Nil
             THEN [stateDB |-> StoreFields(marked, feeConfig, minFeeConfigFieldKey),
                   err |-> ErrBlockNumberNil]
             ELSE [stateDB |-> StoreFields(marked, feeConfig, minFeeConfigFieldKey),
                   err |-> NoErr]

\* StoreFeeConfig that writes the record without validating it
StoreFeeConfig_NoVerify(stateDB, feeConfig, blockNumber) ==
    LET written == StoreFields(stateDB, feeConfig, minFeeConfigFieldKey)
    IN  IF blockNumber = Nil
        THEN [stateDB |-> written, err |-> ErrBlockNumberNil]
        ELSE [stateDB |-> SetState(written, feeConfigLastChangedAtKey,
                                   BigToHash(blockNumber)),
              err |-> NoErr]

\* StoreFeeConfig that records the block number of the first change only
StoreFeeConfig_LastChangedAtOnce(stateDB, feeConfig, blockNumber) ==
    IF FeeConfigVerify(feeConfig) # NoErr
    THEN [stateDB |-> stateDB, err |-> FeeConfigVerify(feeConfig)]
    ELSE LET written == StoreFields(stateDB, feeConfig, minFeeConfigFieldKey)
         IN  IF blockNumber = Nil
             THEN [stateDB |-> written, err |-> ErrBlockNumberNil]
             ELSE IF GetFeeConfigLastChangedAt(stateDB) # Big0
             THEN [stateDB |-> written, err |-> NoErr]
             ELSE [stateDB |-> SetState(written, feeConfigLastChangedAtKey,
                                        BigToHash(blockNumber)),
                   err |-> NoErr]

StoreFeeConfig(stateDB, feeConfig, blockNumber) ==
    IF FeeConfigVerify(feeConfig) # NoErr
    THEN [stateDB |-> stateDB, err |-> FeeConfigVerify(feeConfig)]
    ELSE LET written == StoreFields(stateDB, feeConfig, minFeeConfigFieldKey)
         IN  IF blockNumber = Nil
             THEN [stateDB |-> written, err |-> ErrBlockNumberNil]
             ELSE [stateDB |-> SetState(written, feeConfigLastChangedAtKey,
                                        BigToHash(blockNumber)),
                   err |-> NoErr]

(***************************************************************************)
(* The handlers.  Each yields the returned values and the storage it       *)
(* leaves behind.                                                          *)
(***************************************************************************)
deductGas(suppliedGas, requiredGas) ==
    IF suppliedGas < requiredGas
    THEN [remainingGas |-> 0, err |-> ErrOutOfGas]
    ELSE [remainingGas |-> suppliedGas - requiredGas, err |-> NoErr]

Result(ret, remainingGas, err, stateDB) ==
    [ret |-> ret, remainingGas |-> remainingGas, err |-> err, stateDB |-> stateDB]

\* setFeeConfig without the allow-list check
setFeeConfig_NoAllowList(stateDB, blockNumber, caller, input, suppliedGas, readOnly) ==
    LET gas == deductGas(suppliedGas, SetFeeConfigGasCost)
        unpacked == UnpackFeeConfigInput(input)
        stored == StoreFeeConfig(stateDB, unpacked.feeConfig, blockNumber)
    IN  IF gas.err # NoErr THEN Result(Nil, 0, gas.err, stateDB)
        ELSE IF readOnly THEN Result(Nil, gas.remainingGas, ErrWriteProtection, stateDB)
        ELSE IF unpacked.err # NoErr
             THEN Result(Nil, gas.remainingGas, unpacked.err, stateDB)
        ELSE IF stored.err # NoErr
             THEN Result(Nil, gas.remainingGas, stored.err, stored.stateDB)
        ELSE Result(<<>>, gas.remainingGas, NoErr, stored.stateDB)

\* setFeeConfig that lets only admins through
setFeeConfig_AdminOnly(stateDB, blockNumber, caller, input, suppliedGas, readOnly) ==
    LET gas == deductGas(suppliedGas, SetFeeConfigGasCost)
        unpacked == UnpackFeeConfigInput(input)
        callerStatus == getAllowListStatus(stateDB, caller)
        stored == StoreFeeConfig(stateDB, unpacked.feeConfig, blockNumber)
    IN  IF gas.err # NoErr THEN Result(Nil, 0, gas.err, stateDB)
        ELSE IF readOnly THEN Result(Nil, gas.remainingGas, ErrWriteProtection, stateDB)
        ELSE IF unpacked.err # NoErr
             THEN Result(Nil, gas.remainingGas, unpacked.err, stateDB)
        ELSE IF callerStatus # AllowListAdmin
             THEN Result(Nil, gas.remainingGas, ErrCannotChangeFee, stateDB)
        ELSE IF stored.err # NoErr
             THEN Result(Nil, gas.remainingGas, stored.err, stored.stateDB)
        ELSE Result(<<>>, gas.remainingGas, NoErr, stored.stateDB)

\* setFeeConfig that checks the read-only flag before it deducts gas
setFeeConfig_ReadOnlyFirst(stateDB, blockNumber, caller, input, suppliedGas, readOnly) ==
    LET gas == deductGas(suppliedGas, SetFeeConfigGasCost)
        unpacked == UnpackFeeConfigInput(input)
        callerStatus == getAllowListStatus(stateDB, caller)
        stored == StoreFeeConfig(stateDB, unpacked.feeConfig, blockNumber)
    IN  IF readOnly THEN Result(Nil, suppliedGas, ErrWriteProtection, stateDB)
        ELSE IF gas.err # NoErr THEN Result(Nil, 0, gas.err, stateDB)
        ELSE IF unpacked.err # NoErr
             THEN Result(Nil, gas.remainingGas, unpacked.err, stateDB)
        ELSE IF ~IsEnabled(callerStatus)
             THEN Result(Nil, gas.remainingGas, ErrCannotChangeFee, stateDB)
        ELSE IF stored.err # NoErr
             THEN Result(Nil, gas.remainingGas, stored.err, stored.stateDB)
        ELSE Result(<<>>, gas.remainingGas, NoErr, stored.stateDB)

\* setFeeConfig without the read-only check
setFeeConfig_NoWriteProtection(stateDB, blockNumber, caller, input, suppliedGas, readOnly) ==
    LET gas == deductGas(suppliedGas, SetFeeConfigGasCost)
        unpacked == UnpackFeeConfigInput(input)
        callerStatus == getAllowListStatus(stateDB, caller)
        stored == StoreFeeConfig(stateDB, unpacked.feeConfig, blockNumber)
    IN  IF gas.err # NoErr THEN Result(Nil, 0, gas.err, stateDB)
        ELSE IF unpacked.err # NoErr
             THEN Result(Nil, gas.remainingGas, unpacked.err, stateDB)
        ELSE IF ~IsEnabled(callerStatus)
             THEN Result(Nil, gas.remainingGas, ErrCannotChangeFee, stateDB)
        ELSE IF stored.err # NoErr
             THEN Result(Nil, gas.remainingGas, stored.err, stored.stateDB)
        ELSE Result(<<>>, gas.remainingGas, NoErr, stored.stateDB)

\* setFeeConfig that decodes the input before it looks at readOnly
setFeeConfig_DecodeBeforeReadOnly(stateDB, blockNumber, caller, input, suppliedGas, readOnly) ==
    LET gas == deductGas(suppliedGas, SetFeeConfigGasCost)
        unpacked == UnpackFeeConfigInput(input)
        callerStatus == getAllowListStatus(stateDB, caller)
        stored == StoreFeeConfig(stateDB, unpacked.feeConfig, blockNumber)
    IN  IF gas.err # NoErr THEN Result(Nil, 0, gas.err, stateDB)
        ELSE IF unpacked.err # NoErr
             THEN Result(Nil, gas.remainingGas, unpacked.err, stateDB)
        ELSE IF readOnly THEN Result(Nil, gas.remainingGas, ErrWriteProtection, stateDB)
        ELSE IF ~IsEnabled(callerStatus)
             THEN Result(Nil, gas.remainingGas, ErrCannotChangeFee, stateDB)
        ELSE IF stored.err # NoErr
             THEN Result(Nil, gas.remainingGas, stored.err, stored.stateDB)
        ELSE Result(<<>>, gas.remainingGas, NoErr, stored.stateDB)

setFeeConfig(stateDB, blockNumber, caller, input, suppliedGas, readOnly) ==
    LET gas == deductGas(suppliedGas, SetFeeConfigGasCost)
        unpacked == UnpackFeeConfigInput(input)
        callerStatus == getAllowListStatus(stateDB, caller)
        stored == StoreFeeConfig(stateDB, unpacked.feeConfig, blockNumber)
    IN  IF gas.err # NoErr THEN Result(Nil, 0, gas.err, stateDB)
        ELSE IF readOnly THEN Result(Nil, gas.remainingGas, ErrWriteProtection, stateDB)
        ELSE IF unpacked.err # NoErr
             THEN Result(Nil, gas.remainingGas, unpacked.err, stateDB)
        ELSE IF ~IsEnabled(callerStatus)
             THEN Result(Nil, gas.remainingGas, ErrCannotChangeFee, stateDB)
        ELSE IF stored.err # NoErr
             THEN Result(Nil, gas.remainingGas, stored.err, stored.stateDB)
        ELSE Result(<<>>, gas.remainingGas, NoErr, stored.stateDB)

\* getFeeConfig that refuses a read-only call
getFeeConfig_WriteProtected(stateDB, blockNumber, caller, input, suppliedGas, readOnly) ==
    LET gas == deductGas(suppliedGas, GetFeeConfigGasCost)
        feeConfig == GetStoredFeeConfig(stateDB)
    IN  IF gas.err # NoErr THEN Result(Nil, 0, gas.err, stateDB)
        ELSE IF readOnly THEN Result(Nil, gas.remainingGas, ErrWriteProtection, stateDB)
        ELSE Result(PackFeeConfig(feeConfig), gas.remainingGas, NoErr, stateDB)

getFeeConfig(stateDB, blockNumber, caller, input, suppliedGas, readOnly) ==
    LET gas == deductGas(suppliedGas, GetFeeConfigGasCost)
        feeConfig == GetStoredFeeConfig(stateDB)
    IN  IF gas.err # NoErr THEN Result(Nil, 0, gas.err, stateDB)
        ELSE Result(PackFeeConfig(feeConfig), gas.remainingGas, NoErr, stateDB)

getFeeConfigLastChangedAt(stateDB, blockNumber, caller, input, suppliedGas, readOnly) ==
    LET gas == deductGas(suppliedGas, GetLastChangedAtGasCost)
        lastChangedAt == GetFeeConfigLastChangedAt(stateDB)
    IN  IF gas.err # NoErr THEN Result(Nil, 0, gas.err, stateDB)
        ELSE Result(BigToHash(lastChangedAt), gas.remainingGas, NoErr, stateDB)

(***************************************************************************)
(* The handlers the precompile template generates.  A method is            *)
(* [IsConstant, HasInputs, AllowList, GasCost]; the custom code of a       *)
(* generated handler is empty, and the ABI decides what unpacking yields.  *)
(***************************************************************************)
ErrCannotCall == "non-enabled cannot call"
ErrCannotFallback == "non-enabled cannot call fallback function"
ErrAbiUnpack == "abi: cannot unpack input"

\* the handler of a function of the contract
templateFunction(method, unpackErr, stateDB, caller, input, suppliedGas, readOnly) ==
    LET gas == deductGas(suppliedGas, method.GasCost)
        callerStatus == getAllowListStatus(stateDB, caller)
    IN  IF gas.err # NoErr THEN Result(Nil, 0, gas.err, stateDB)
        ELSE IF ~method.IsConstant /\ readOnly
             THEN Result(Nil, gas.remainingGas, ErrWriteProtection, stateDB)
        ELSE IF method.HasInputs /\ unpackErr # NoErr
             THEN Result(Nil, gas.remainingGas, unpackErr, stateDB)
        ELSE IF ~method.IsConstant /\ method.AllowList /\ ~IsEnabled(callerStatus)
             THEN Result(Nil, gas.remainingGas, ErrCannotCall, stateDB)
        ELSE Result(<<>>, gas.remainingGas, NoErr, stateDB)

\* the fallback of the contract
templateFallback(method, stateDB, caller, input, suppliedGas, readOnly) ==
    LET gas == deductGas(suppliedGas, method.GasCost)
        callerStatus == getAllowListStatus(stateDB, caller)
    IN  IF gas.err # NoErr THEN Result(Nil, 0, gas.err, stateDB)
        ELSE IF readOnly THEN Result(Nil, gas.remainingGas, ErrWriteProtection, stateDB)
        ELSE IF method.AllowList /\ ~IsEnabled(callerStatus)
             THEN Result(Nil, gas.remainingGas, ErrCannotFallback, stateDB)
        ELSE Result(<<>>, gas.remainingGas, NoErr, stateDB)

(***************************************************************************)
(* The contract: the registry of selectors and handlers, and the call      *)
(* dispatcher that routes an input by its first four bytes.                *)
(***************************************************************************)
setAdminSignature == <<112, 75, 108, 2>>
setEnabledSignature == <<10, 175, 112, 67>>
setNoneSignature == <<140, 107, 251, 59>>
readAllowListSignature == <<235, 84, 218, 225>>

selectorLen == 4
allowListInputLen == HashLength
ModifyAllowListGasCost == writeGasCostPerSlot
ReadAllowListGasCost == readGasCostPerSlot

ErrMethodNotFound == "method not found"
ErrCannotModifyAllowList == "non-admin cannot modify allow list"
ErrInvalidAllowListInputLength == "invalid input length for allow list"

\* common.BytesToAddress: the last AddressLength bytes
BytesToAddress(b) == SubSeq(b, Len(b) - AddressLength + 1, Len(b))

\* the allow list handler that gives the address in the input the role
writeAllowList(role, stateDB, caller, input, suppliedGas, readOnly) ==
    LET gas == deductGas(suppliedGas, ModifyAllowListGasCost)
    IN  IF gas.err # NoErr THEN Result(Nil, 0, gas.err, stateDB)
        ELSE IF Len(input) # allowListInputLen
             THEN Result(Nil, gas.remainingGas, ErrInvalidAllowListInputLength, stateDB)
        ELSE IF readOnly THEN Result(Nil, gas.remainingGas, ErrWriteProtection, stateDB)
        ELSE IF getAllowListStatus(stateDB, caller) # AllowListAdmin
             THEN Result(Nil, gas.remainingGas, ErrCannotModifyAllowList, stateDB)
        ELSE Result(<<>>, gas.remainingGas, NoErr,
                    setAllowListRole(stateDB, BytesToAddress(input), role))

\* the allow list handler that returns the role of the address in the input
readAllowList(stateDB, caller, input, suppliedGas, readOnly) ==
    LET gas == deductGas(suppliedGas, ReadAllowListGasCost)
    IN  IF gas.err # NoErr THEN Result(Nil, 0, gas.err, stateDB)
        ELSE IF Len(input) # allowListInputLen
             THEN Result(Nil, gas.remainingGas, ErrInvalidAllowListInputLength, stateDB)
        ELSE Result(getAllowListStatus(stateDB, BytesToAddress(input)),
                    gas.remainingGas, NoErr, stateDB)

\* a function of the contract: its selector and the handler it executes
newStatefulPrecompileFunction(selector, execute) ==
    [selector |-> selector, execute |-> execute]

createAllowListFunctions ==
    << newStatefulPrecompileFunction(setAdminSignature, "setAdmin"),
       newStatefulPrecompileFunction(setEnabledSignature, "setEnabled"),
       newStatefulPrecompileFunction(setNoneSignature, "setNone"),
       newStatefulPrecompileFunction(readAllowListSignature, "readAllowList") >>

\* a contract: its fallback, << >> when nil, and its functions
NewStatefulPrecompileContract(fallback, functions) ==
    [fallback |-> fallback, functions |-> functions]

\* the contract with the handlers of the two getters registered crosswise
createFeeConfigManagerPrecompile_GettersCrossed ==
    NewStatefulPrecompileContract(<<>>,
        createAllowListFunctions \o
        << newStatefulPrecompileFunction(setFeeConfigSignature, "setFeeConfig"),
           newStatefulPrecompileFunction(getFeeConfigSignature,
                                         "getFeeConfigLastChangedAt"),
           newStatefulPrecompileFunction(getFeeConfigLastChangedAtSignature,
                                         "getFeeConfig") >>)

createFeeConfigManagerPrecompile ==
    NewStatefulPrecompileContract(<<>>,
        createAllowListFunctions \o
        << newStatefulPrecompileFunction(setFeeConfigSignature, "setFeeConfig"),
           newStatefulPrecompileFunction(getFeeConfigSignature, "getFeeConfig"),
           newStatefulPrecompileFunction(getFeeConfigLastChangedAtSignature,
                                         "getFeeConfigLastChangedAt") >>)

\* the call of the handler named execute
Execute(execute, stateDB, blockNumber, caller, input, suppliedGas, readOnly) ==
    CASE execute = "setFeeConfig" ->
            setFeeConfig(stateDB, blockNumber, caller, input, suppliedGas, readOnly)
      [] execute = "getFeeConfig" ->
            getFeeConfig(stateDB, blockNumber, caller, input, suppliedGas, readOnly)
      [] execute = "getFeeConfigLastChangedAt" ->
            getFeeConfigLastChangedAt(stateDB, blockNumber, caller, input, suppliedGas,
                                      readOnly)
      [] execute = "setAdmin" ->
            writeAllowList(AllowListAdmin, stateDB, caller, input, suppliedGas, readOnly)
      [] execute = "setEnabled" ->
            writeAllowList(AllowListEnabled, stateDB, caller, input, suppliedGas, readOnly)
      [] execute = "setNone" ->
            writeAllowList(AllowListNoRole, stateDB, caller, input, suppliedGas, readOnly)
      [] execute = "readAllowList" ->
            readAllowList(stateDB, caller, input, suppliedGas, readOnly)

\* the dispatcher: the function whose selector is the first four bytes of the
\* input gets the rest of it; without one, the fallback gets the whole input;
\* without a fallback the call fails
Run(contract, stateDB, blockNumber, caller, input, suppliedGas, readOnly) ==
    LET selector == SubSeq(input, 1, selectorLen)
        functionInput == SubSeq(input, selectorLen + 1, Len(input))
        found == {i \in 1..Len(contract.functions) :
                    contract.functions[i].selector = selector}
    IN  IF found # {}
        THEN Execute(contract.functions[CHOOSE i \in found : TRUE].execute,
                     stateDB, blockNumber, caller, functionInput, suppliedGas, readOnly)
        ELSE IF contract.fallback # <<>>
        THEN Execute(contract.fallback[1], stateDB, blockNumber, caller, input,
                     suppliedGas, readOnly)
        ELSE Result(Nil, suppliedGas, ErrMethodNotFound, stateDB)

(***************************************************************************)
(* Activation.  A FeeConfigManagerConfig is its two address lists and its  *)
(* InitialFeeConfig, << >> when nil and << feeConfig >> otherwise.         *)
(***************************************************************************)
RECURSIVE SetRoles(_, _, _)
SetRoles(stateDB, addrs, role) ==
    IF addrs = <<>> THEN stateDB
    ELSE SetRoles(setAllowListRole(stateDB, Head(addrs), role), Tail(addrs), role)

\* AllowListConfig.Configure(state, FeeConfigManagerAddress)
AllowListConfigure(c, stateDB) ==
    SetRoles(SetRoles(stateDB, c.AllowListAdmins, AllowListAdmin),
             c.EnabledAddresses, AllowListEnabled)

ErrInvalidInitialFeeConfig == "invalid feeConfig provided"
ErrInvalidChainFeeConfig == "invalid feeConfig provided in chainConfig"

\* Configure that always stores the fee config of the chain
Configure_ChainDefaultOnly(c, chainFeeConfig, stateDB, blockNumber) ==
    LET stored == StoreFeeConfig(stateDB, chainFeeConfig, blockNumber)
    IN  IF stored.err # NoErr
        THEN [stateDB |-> stored.stateDB, err |-> ErrInvalidChainFeeConfig]
        ELSE [stateDB |-> AllowListConfigure(c, stored.stateDB), err |-> NoErr]

\* Configure that writes the fields of the record and not the block number
Configure_FieldsOnly(c, chainFeeConfig, stateDB, blockNumber) ==
    LET explicit == c.InitialFeeConfig # <<>>
        feeConfig == IF explicit THEN c.InitialFeeConfig[1] ELSE chainFeeConfig
    IN  IF FeeConfigVerify(feeConfig) # NoErr \/ blockNumber = Nil
        THEN [stateDB |-> stateDB,
              err |-> IF explicit THEN ErrInvalidInitialFeeConfig
                      ELSE ErrInvalidChainFeeConfig]
        ELSE [stateDB |-> AllowListConfigure(c,
                              StoreFields(stateDB, feeConfig, minFeeConfigFieldKey)),
              err |-> NoErr]

\* Configure that seeds the roles before it stores the fee config
Configure_RolesFirst(c, chainFeeConfig, stateDB, blockNumber) ==
    LET explicit == c.InitialFeeConfig # <<>>
        seeded == AllowListConfigure(c, stateDB)
        stored == IF explicit
                  THEN StoreFeeConfig(seeded, c.InitialFeeConfig[1], blockNumber)
                  ELSE StoreFeeConfig(seeded, chainFeeConfig, blockNumber)
    IN  IF stored.err # NoErr
        THEN [stateDB |-> stored.stateDB,
              err |-> IF explicit THEN ErrInvalidInitialFeeConfig
                      ELSE ErrInvalidChainFeeConfig]
        ELSE [stateDB |-> stored.stateDB, err |-> NoErr]

Configure(c, chainFeeConfig, stateDB, blockNumber) ==
    LET explicit == c.InitialFeeConfig # <<>>
        stored == IF explicit
                  THEN StoreFeeConfig(stateDB, c.InitialFeeConfig[1], blockNumber)
                  ELSE StoreFeeConfig(stateDB, chainFeeConfig, blockNumber)
    IN  IF stored.err # NoErr
        THEN [stateDB |-> stored.stateDB,
              err |-> IF explicit THEN ErrInvalidInitialFeeConfig
                      ELSE ErrInvalidChainFeeConfig]
        ELSE [stateDB |-> AllowListConfigure(c, stored.stateDB), err |-> NoErr]


ErrBothAdminAndEnabled == "cannot set address as both admin and enabled"

\* AllowListConfig.Verify: no address is both admin and enabled
AllowListVerify(c) ==
    IF \E i \in 1..Len(c.AllowListAdmins), j \in 1..Len(c.EnabledAddresses) :
          c.AllowListAdmins[i] = c.EnabledAddresses[j]
    THEN ErrBothAdminAndEnabled
    ELSE NoErr

\* Verify that looks at the initial fee config before the allow list
Verify_FeeConfigFirst(c) ==
    IF c.InitialFeeConfig # <<>> /\ FeeConfigVerify(c.InitialFeeConfig[1]) # NoErr
    THEN FeeConfigVerify(c.InitialFeeConfig[1])
    ELSE AllowListVerify(c)

\* Verify that looks at the allow list only
Verify_AllowListOnly(c) == AllowListVerify(c)

\* FeeConfigManagerConfig.Verify
Verify(c) ==
    IF AllowListVerify(c) # NoErr THEN AllowListVerify(c)
    ELSE IF c.InitialFeeConfig = <<>> THEN NoErr
    ELSE FeeConfigVerify(c.InitialFeeConfig[1])

(***************************************************************************)
(* Equality of configs.  A StatefulPrecompileConfig is a record of its     *)
(* dynamic type and the fields of a FeeConfigManagerConfig.                *)
(***************************************************************************)
FeeConfigManagerConfigType == "*FeeConfigManagerConfig"

\* the addresses of a list
Members(addrs) == {addrs[i] : i \in 1..Len(addrs)}

\* UpgradeableConfig.Equal
UpgradeableConfigEqual(c, other) ==
    c.BlockTimestamp = other.BlockTimestamp /\ c.Disable = other.Disable

\* AllowListConfig.Equal: the same admins and the same enabled addresses
AllowListConfigEqual(c, other) ==
    /\ Members(c.AllowListAdmins) = Members(other.AllowListAdmins)
    /\ Members(c.EnabledAddresses) = Members(other.EnabledAddresses)

\* commontype.FeeConfig.Equal(other), other being << >> when nil
FeeConfigEqual(f, other) ==
    IF other = <<>> THEN FALSE
    ELSE /\ f.GasLimit = other[1].GasLimit
         /\ f.TargetBlockRate = other[1].TargetBlockRate
         /\ f.MinBaseFee = other[1].MinBaseFee
         /\ f.TargetGas = other[1].TargetGas
         /\ f.BaseFeeChangeDenominator = other[1].BaseFeeChangeDenominator
         /\ f.MinBlockGasCost = other[1].MinBlockGasCost
         /\ f.MaxBlockGasCost = other[1].MaxBlockGasCost
         /\ f.BlockGasCostStep = other[1].BlockGasCostStep

\* Equal that takes a config without initial fee config as equal to any
Equal_NilMatchesAny(c, s) ==
    IF s.Type # FeeConfigManagerConfigType THEN FALSE
    ELSE IF ~(UpgradeableConfigEqual(c, s) /\ AllowListConfigEqual(c, s)) THEN FALSE
    ELSE IF c.InitialFeeConfig = <<>> THEN TRUE
    ELSE FeeConfigEqual(c.InitialFeeConfig[1], s.InitialFeeConfig)

\* FeeConfigManagerConfig.Equal
Equal(c, s) ==
    IF s.Type # FeeConfigManagerConfigType THEN FALSE
    ELSE IF ~(UpgradeableConfigEqual(c, s) /\ AllowListConfigEqual(c, s)) THEN FALSE
    ELSE IF c.InitialFeeConfig = <<>> THEN s.InitialFeeConfig = <<>>
    ELSE FeeConfigEqual(c.InitialFeeConfig[1], s.InitialFeeConfig)

(***************************************************************************)
(* The inputs the calls are made with.                                     *)
(***************************************************************************)
\* the 32-byte word of hi * 2^64 + lo, for bytes hi and lo
Word(hi, lo) ==
    [j \in 1..HashLength |->
        IF j = HashLength THEN lo
        ELSE IF j = HashLength - Uint64Length THEN hi ELSE 0]

One == Word(0, 1)
BaseWords == <<One, One, One, One, One, One, One, One>>

\* the words of the 256-byte inputs: a valid record and records that differ from it in one field
InputWords ==
    { BaseWords,
      [BaseWords EXCEPT ![targetBlockRateKey] = Word(0, 2)],
      [BaseWords EXCEPT ![targetBlockRateKey] = Word(1, 2)],
      [BaseWords EXCEPT ![targetBlockRateKey] = Word(1, 0)],
      [BaseWords EXCEPT ![gasLimitKey] = Word(0, 0)],
      [BaseWords EXCEPT ![gasLimitKey] = Word(1, 1)],
      [BaseWords EXCEPT ![minBlockGasCostKey] = Word(0, 2)],
      [BaseWords EXCEPT ![maxBlockGasCostKey] = Word(0, 2)] }

\* inputs of the wrong length: empty, a byte short, a byte long
BadLengthInputs ==
    { <<>>,
      SubSeq(packOrderedHashes(BaseWords), 1, feeConfigInputLen - 1),
      packOrderedHashes(BaseWords) \o <<0>> }

Inputs == {packOrderedHashes(ws) : ws \in InputWords} \cup BadLengthInputs

\* the gas a call is made with, around the cost of the handler
SuppliedGas(cost) == (cost - GasSlack)..(cost + GasSlack)

\* what BlockContext.Number() returns
BlockNumbers == {Nil} \cup {FromNat(n) : n \in 1..MaxBlock}

\* the chain's default fee config: chainConfig.GetFeeConfig()
DefaultFeeConfig ==
    FeeConfig(FromNat(8000000), FromNat(2), <<5, 210, 29, 186, 0>>,
              FromNat(15000000), FromNat(36), FromNat(0), FromNat(1000000),
              FromNat(200000))

\* an initial fee config that fails validation
BadFeeConfig == [DefaultFeeConfig EXCEPT !.BaseFeeChangeDenominator = FromNat(0)]

\* a valid initial fee config other than the default
OtherFeeConfig == [DefaultFeeConfig EXCEPT !.TargetBlockRate = FromNat(3)]

ChainFeeConfigs == {DefaultFeeConfig}

Configs ==
    [AllowListAdmins : {<<>>, <<AddrA>>},
     EnabledAddresses : {<<>>, <<AddrB>>, <<AddrA>>},
     InitialFeeConfig : {<<>>, <<OtherFeeConfig>>, <<BadFeeConfig>>}]

\* the largest value of n bytes
MaxBytes(n) == [i \in 1..n |-> 255]

\* the records that are packed: valid or not, with the extreme values of every field
PackRecords ==
    { DefaultFeeConfig, OtherFeeConfig, BadFeeConfig,
      FeeConfig(FromNat(1), FromNat(2), FromNat(3), FromNat(4), FromNat(5),
                FromNat(6), FromNat(7), FromNat(8)),
      FeeConfig(<<>>, <<>>, <<>>, <<>>, <<>>, <<>>, <<>>, <<>>),
      FeeConfig(MaxBytes(HashLength), MaxBytes(Uint64Length), MaxBytes(HashLength),
                MaxBytes(HashLength), MaxBytes(HashLength), MaxBytes(HashLength),
                MaxBytes(HashLength), MaxBytes(HashLength)) }

\* NewFeeManagerConfig(1, {A, B}, {B}, OtherFeeConfig)
BaseConfig ==
    [Type |-> FeeConfigManagerConfigType, BlockTimestamp |-> FromNat(1),
     Disable |-> FALSE, AllowListAdmins |-> <<AddrA, AddrB>>,
     EnabledAddresses |-> <<AddrB>>, InitialFeeConfig |-> <<OtherFeeConfig>>]

\* the configs that are compared: a config and the configs that differ from it in one field
PrecompileConfigs ==
    { [BaseConfig EXCEPT !.BlockTimestamp = FromNat(n)] : n \in 1..MaxTimestamp }
    \cup { [BaseConfig EXCEPT !.Type = "*OtherConfig"],
           [BaseConfig EXCEPT !.Disable = TRUE],
           [BaseConfig EXCEPT !.AllowListAdmins = <<AddrB, AddrA>>],
           [BaseConfig EXCEPT !.AllowListAdmins = <<>>],
           [BaseConfig EXCEPT !.EnabledAddresses = <<>>],
           [BaseConfig EXCEPT !.InitialFeeConfig = <<>>],
           [BaseConfig EXCEPT !.InitialFeeConfig = <<DefaultFeeConfig>>] }

FeeConfigManagerConfigs == {c \in PrecompileConfigs : c.Type = FeeConfigManagerConfigType}

NoPrecompileConfig ==
    [Type |-> FeeConfigManagerConfigType, BlockTimestamp |-> FromNat(1),
     Disable |-> FALSE, AllowListAdmins |-> <<>>, EnabledAddresses |-> <<>>,
     InitialFeeConfig |-> <<>>]

NoConfig == [AllowListAdmins |-> <<>>, EnabledAddresses |-> <<>>, InitialFeeConfig |-> <<>>]

(***************************************************************************)
(* The state machine.                                                      *)
(***************************************************************************)
VARIABLES
    stateDB,    \* the storage of the contract
    prev,       \* the storage before the last call
    call,       \* the last call: its operation and arguments
    res,        \* what the last call returned
    lastSuccessAt,  \* history: the block number of the latest successful
                    \* setFeeConfig or Configure, Nil before the first
    outcome,    \* history of SpecRoles: how the latest setFeeConfig of each
                \* address ended, "succeeded", "unauthorized" or "none"
    assigned    \* history of SpecRoles: the role the host gave each address last

vars == <<stateDB, prev, call, res, lastSuccessAt, outcome, assigned>>

\* the template's own method: no gas cost set, no inputs
NoMethod == [IsConstant |-> TRUE, HasInputs |-> FALSE, AllowList |-> FALSE, GasCost |-> 0]

\* the methods a contract generated from the template may have
Methods ==
    {NoMethod} \cup
    [IsConstant : BOOLEAN, HasInputs : BOOLEAN, AllowList : BOOLEAN,
     GasCost : {writeGasCostPerSlot}]

\* the gas of a call of a generated handler: none, or more than its cost
TemplateGas == {0, writeGasCostPerSlot + GasSlack}

NoCall ==
    [op |-> "none", caller |-> AddrA, input |-> <<>>, suppliedGas |-> 0,
     readOnly |-> FALSE, blockNumber |-> Nil, address |-> AddrA,
     role |-> AllowListNoRole, config |-> NoConfig, feeConfig |-> EmptyFeeConfig,
     chainFeeConfig |-> EmptyFeeConfig, c |-> NoPrecompileConfig,
     other |-> NoPrecompileConfig, method |-> NoMethod]

NoRes ==
    [ret |-> Nil, remainingGas |-> 0, err |-> NoErr, feeConfig |-> EmptyFeeConfig,
     equal |-> FALSE]

Init ==
    /\ stateDB = EmptyStateDB
    /\ prev = EmptyStateDB
    /\ call = NoCall
    /\ res = NoRes
    /\ lastSuccessAt = Nil
    /\ outcome = [a \in Addresses |-> "none"]
    /\ assigned = [a \in Addresses |-> AllowListNoRole]

\* the host makes its calls one after the other: none is in progress
Idle == call.op = "none"

\* a call of handler op made by the dispatcher, with result r
Handled(op, caller, input, suppliedGas, readOnly, blockNumber, r) ==
    /\ Idle
    /\ call' = [NoCall EXCEPT !.op = op, !.caller = caller, !.input = input,
                              !.suppliedGas = suppliedGas, !.readOnly = readOnly,
                              !.blockNumber = blockNumber]
    /\ res' = [NoRes EXCEPT !.ret = r.ret, !.remainingGas = r.remainingGas,
                            !.err = r.err]
    /\ prev' = stateDB
    /\ UNCHANGED <<outcome, assigned>>
    /\ stateDB' = r.stateDB
    /\ lastSuccessAt' = IF op = "setFeeConfig" /\ r.err = NoErr
                        THEN blockNumber ELSE lastSuccessAt

CallSetFeeConfig ==
    \E caller \in Addresses, input \in Inputs,
       suppliedGas \in SuppliedGas(SetFeeConfigGasCost),
       readOnly \in BOOLEAN, blockNumber \in BlockNumbers :
        Handled("setFeeConfig", caller, input, suppliedGas, readOnly, blockNumber,
                setFeeConfig(stateDB, blockNumber, caller, input, suppliedGas, readOnly))

CallGetFeeConfig ==
    \E caller \in Addresses, suppliedGas \in SuppliedGas(GetFeeConfigGasCost),
       readOnly \in BOOLEAN :
        Handled("getFeeConfig", caller, <<>>, suppliedGas, readOnly, Nil,
                getFeeConfig(stateDB, Nil, caller, <<>>, suppliedGas, readOnly))

CallGetFeeConfigLastChangedAt ==
    \E caller \in Addresses, suppliedGas \in SuppliedGas(GetLastChangedAtGasCost),
       readOnly \in BOOLEAN :
        Handled("getFeeConfigLastChangedAt", caller, <<>>, suppliedGas, readOnly, Nil,
                getFeeConfigLastChangedAt(stateDB, Nil, caller, <<>>, suppliedGas,
                                          readOnly))

\* the host sets the role of an address
CallSetFeeConfigManagerStatus ==
    \E address \in Addresses, role \in AllowListRoles :
        /\ Idle
        /\ call' = [NoCall EXCEPT !.op = "SetFeeConfigManagerStatus",
                                  !.address = address, !.role = role]
        /\ res' = NoRes
        /\ prev' = stateDB
        /\ UNCHANGED <<outcome, assigned>>
        /\ stateDB' = SetFeeConfigManagerStatus(stateDB, address, role)
        /\ UNCHANGED lastSuccessAt

\* the host decodes an input
CallUnpackFeeConfigInput ==
    \E input \in Inputs :
        /\ Idle
        /\ call' = [NoCall EXCEPT !.op = "UnpackFeeConfigInput", !.input = input]
        /\ res' = [NoRes EXCEPT !.feeConfig = UnpackFeeConfigInput(input).feeConfig,
                                !.err = UnpackFeeConfigInput(input).err]
        /\ prev' = stateDB
        /\ UNCHANGED <<outcome, assigned>>
        /\ UNCHANGED <<stateDB, lastSuccessAt>>

\* the host packs a record, with and without the selector, and decodes it again
CallPackFeeConfig ==
    \E feeConfig \in PackRecords :
        /\ Idle
        /\ call' = [NoCall EXCEPT !.op = "PackFeeConfig", !.feeConfig = feeConfig]
        /\ res' = [NoRes EXCEPT
                     !.ret = PackSetFeeConfig(feeConfig),
                     !.feeConfig = UnpackFeeConfigInput(PackFeeConfig(feeConfig)).feeConfig,
                     !.err = UnpackFeeConfigInput(PackFeeConfig(feeConfig)).err]
        /\ prev' = stateDB
        /\ UNCHANGED <<outcome, assigned>>
        /\ UNCHANGED <<stateDB, lastSuccessAt>>

\* the host activates the precompile
CallConfigure ==
    \E c \in Configs, chainFeeConfig \in ChainFeeConfigs, blockNumber \in BlockNumbers :
        LET r == Configure(c, chainFeeConfig, stateDB, blockNumber)
        IN  /\ Idle
            /\ call' = [NoCall EXCEPT !.op = "Configure", !.config = c,
                                      !.chainFeeConfig = chainFeeConfig,
                                      !.blockNumber = blockNumber]
            /\ res' = [NoRes EXCEPT !.err = r.err]
            /\ prev' = stateDB
            /\ UNCHANGED <<outcome, assigned>>
            /\ stateDB' = r.stateDB
            /\ lastSuccessAt' = IF r.err = NoErr THEN blockNumber ELSE lastSuccessAt

\* the host validates a config before it schedules it
CallVerify ==
    \E c \in Configs :
        /\ Idle
        /\ call' = [NoCall EXCEPT !.op = "Verify", !.config = c]
        /\ res' = [NoRes EXCEPT !.err = Verify(c)]
        /\ prev' = stateDB
        /\ UNCHANGED <<outcome, assigned>>
        /\ UNCHANGED <<stateDB, lastSuccessAt>>

\* the host compares two configs
CallEqual ==
    \E c \in FeeConfigManagerConfigs, other \in PrecompileConfigs :
        /\ Idle
        /\ call' = [NoCall EXCEPT !.op = "Equal", !.c = c, !.other = other]
        /\ res' = [NoRes EXCEPT !.equal = Equal(c, other)]
        /\ prev' = stateDB
        /\ UNCHANGED <<outcome, assigned>>
        /\ UNCHANGED <<stateDB, lastSuccessAt>>

\* selectors that belong to no function of the contract
UnknownSelectors == {<<0, 0, 0, 0>>, <<143, 16, 181, 135>>, <<95, 187, 192, 211>>}

\* the inputs of calls of the contract: a selector and the input of a function
RunInputs ==
    {sel \o packOrderedHashes(BaseWords) :
        sel \in {setFeeConfigSignature} \cup UnknownSelectors}
    \cup {getFeeConfigSignature, getFeeConfigLastChangedAtSignature}
    \cup {sel \o AddressHash(AddrB) :
            sel \in {setAdminSignature, setEnabledSignature, setNoneSignature,
                     readAllowListSignature}}

\* the gas of a call of the contract: none, or enough for every handler
RunGas == {0, SetFeeConfigGasCost + GasSlack}

\* the host calls the contract
CallRun ==
    \E caller \in Addresses, input \in RunInputs, suppliedGas \in RunGas,
       readOnly \in BOOLEAN, blockNumber \in {FromNat(MaxBlock)} :
        LET r == Run(createFeeConfigManagerPrecompile, stateDB, blockNumber, caller,
                     input, suppliedGas, readOnly)
        IN  /\ Idle
            /\ call' = [NoCall EXCEPT !.op = "Run", !.caller = caller,
                                      !.input = input, !.suppliedGas = suppliedGas,
                                      !.readOnly = readOnly,
                                      !.blockNumber = blockNumber]
            /\ res' = [NoRes EXCEPT !.ret = r.ret, !.remainingGas = r.remainingGas,
                                    !.err = r.err]
            /\ prev' = stateDB
            /\ UNCHANGED <<outcome, assigned>>
            /\ stateDB' = r.stateDB
            /\ lastSuccessAt' =
                   IF SubSeq(input, 1, selectorLen) = setFeeConfigSignature
                      /\ r.err = NoErr
                   THEN blockNumber ELSE lastSuccessAt

\* the host calls a handler generated from the template
CallTemplateFunction ==
    \E method \in Methods, unpackErr \in {NoErr, ErrAbiUnpack}, caller \in Addresses,
       suppliedGas \in TemplateGas, readOnly \in BOOLEAN :
        LET r == templateFunction(method, unpackErr, stateDB, caller, <<>>,
                                  suppliedGas, readOnly)
        IN  /\ Idle
            /\ method.HasInputs \/ unpackErr = NoErr
            /\ call' = [NoCall EXCEPT !.op = "templateFunction", !.method = method,
                                      !.caller = caller, !.suppliedGas = suppliedGas,
                                      !.readOnly = readOnly]
            /\ res' = [NoRes EXCEPT !.ret = r.ret, !.remainingGas = r.remainingGas,
                                    !.err = r.err]
            /\ prev' = stateDB
            /\ UNCHANGED <<outcome, assigned>>
            /\ stateDB' = r.stateDB
            /\ UNCHANGED lastSuccessAt

\* the host calls the fallback generated from the template
CallTemplateFallback ==
    \E method \in {m \in Methods : ~m.IsConstant /\ ~m.HasInputs},
       caller \in Addresses, suppliedGas \in TemplateGas, readOnly \in BOOLEAN :
        LET r == templateFallback(method, stateDB, caller, <<>>, suppliedGas, readOnly)
        IN  /\ Idle
            /\ call' = [NoCall EXCEPT !.op = "templateFallback", !.method = method,
                                      !.caller = caller, !.suppliedGas = suppliedGas,
                                      !.readOnly = readOnly]
            /\ res' = [NoRes EXCEPT !.ret = r.ret, !.remainingGas = r.remainingGas,
                                    !.err = r.err]
            /\ prev' = stateDB
            /\ UNCHANGED <<outcome, assigned>>
            /\ stateDB' = r.stateDB
            /\ UNCHANGED lastSuccessAt

\* the host takes the result of the call; the next call starts from this storage
Return ==
    /\ ~Idle
    /\ call' = NoCall
    /\ res' = NoRes
    /\ prev' = stateDB
    /\ UNCHANGED <<outcome, assigned>>
    /\ UNCHANGED <<stateDB, lastSuccessAt>>

Next ==
    \/ CallSetFeeConfig
    \/ CallGetFeeConfig
    \/ CallGetFeeConfigLastChangedAt
    \/ CallSetFeeConfigManagerStatus
    \/ CallUnpackFeeConfigInput
    \/ CallConfigure
    \/ CallPackFeeConfig
    \/ CallVerify
    \/ CallEqual
    \/ CallRun
    \/ CallTemplateFunction
    \/ CallTemplateFallback
    \/ Return

Spec == Init /\ [][Next]_vars

(***************************************************************************)
(* The role specification: the host changes roles between setFeeConfig     *)
(* calls, and the histories outcome and assigned are kept.                 *)
(***************************************************************************)
\* the inputs of the role specification: two valid records and a short input
RolesInputs ==
    { packOrderedHashes(BaseWords),
      packOrderedHashes([BaseWords EXCEPT ![gasLimitKey] = Word(1, 1)]),
      <<>> }

RolesSetFeeConfig ==
    \E caller \in Addresses, input \in RolesInputs,
       blockNumber \in BlockNumbers \ {Nil} :
        LET r == setFeeConfig(stateDB, blockNumber, caller, input,
                              SetFeeConfigGasCost, FALSE)
        IN  /\ Idle
            /\ call' = [NoCall EXCEPT !.op = "setFeeConfig", !.caller = caller,
                                      !.input = input,
                                      !.suppliedGas = SetFeeConfigGasCost,
                                      !.blockNumber = blockNumber]
            /\ res' = [NoRes EXCEPT !.ret = r.ret, !.remainingGas = r.remainingGas,
                                    !.err = r.err]
            /\ prev' = stateDB
            /\ stateDB' = r.stateDB
            /\ lastSuccessAt' = IF r.err = NoErr THEN blockNumber ELSE lastSuccessAt
            /\ UNCHANGED <<outcome, assigned>>

RolesSetFeeConfigManagerStatus ==
    \E address \in Addresses, role \in AllowListRoles :
        /\ Idle
        /\ call' = [NoCall EXCEPT !.op = "SetFeeConfigManagerStatus",
                                  !.address = address, !.role = role]
        /\ res' = NoRes
        /\ prev' = stateDB
        /\ stateDB' = SetFeeConfigManagerStatus(stateDB, address, role)
        /\ assigned' = [assigned EXCEPT ![address] = role]
        /\ UNCHANGED <<lastSuccessAt, outcome>>

\* the host takes the result; how a setFeeConfig ended is remembered
RolesReturn ==
    /\ ~Idle
    /\ call' = NoCall
    /\ res' = NoRes
    /\ prev' = stateDB
    /\ outcome' = IF call.op = "setFeeConfig" /\ res.err = NoErr
                  THEN [outcome EXCEPT ![call.caller] = "succeeded"]
                  ELSE IF call.op = "setFeeConfig" /\ res.err = ErrCannotChangeFee
                  THEN [outcome EXCEPT ![call.caller] = "unauthorized"]
                  ELSE outcome
    /\ UNCHANGED <<stateDB, lastSuccessAt, assigned>>

NextRoles ==
    \/ RolesSetFeeConfig
    \/ RolesSetFeeConfigManagerStatus
    \/ RolesReturn

SpecRoles == Init /\ [][NextRoles]_vars

TypeOK ==
    /\ DOMAIN stateDB = StorageKeys
    /\ \A k \in StorageKeys : Len(stateDB[k]) = HashLength


(***************************************************************************)
(* Properties.                                                             *)
(***************************************************************************)
\* the slots of the stored fee config and of last changed at
FeeConfigSlots == FieldKeys \cup {feeConfigLastChangedAtKey}

FeeConfigSlotsUnchanged == \A k \in FeeConfigSlots : stateDB[k] = prev[k]

\* the record a 256-byte input decodes to passes validation
ValidInput(input) ==
    /\ Len(input) = feeConfigInputLen
    /\ FeeConfigVerify(UnpackFeeConfigInput(input).feeConfig) = NoErr

\* the role the caller of the last call had when the call was made
CallerRole == getAllowListStatus(prev, call.caller)

\* C1: a setFeeConfig call by a caller whose stored role is None, with a
\* valid 256-byte input, enough gas and readOnly = false, fails with
\* ErrCannotChangeFee and leaves the eight fee config slots and the
\* last-changed-at slot as they were.
C1_NoneCallerRejected ==
    ( /\ call.op = "setFeeConfig"
      /\ CallerRole = AllowListNoRole
      /\ ValidInput(call.input)
      /\ call.suppliedGas >= SetFeeConfigGasCost
      /\ ~call.readOnly )
    => (res.err = ErrCannotChangeFee /\ FeeConfigSlotsUnchanged)

\* a caller without role was turned away from a contract that holds a fee config
C1_Witness ==
    /\ call.op = "setFeeConfig"
    /\ CallerRole = AllowListNoRole
    /\ ValidInput(call.input)
    /\ call.suppliedGas >= SetFeeConfigGasCost
    /\ ~call.readOnly
    /\ call.blockNumber # Nil
    /\ res.err = ErrCannotChangeFee
    /\ GetStoredFeeConfig(stateDB) # UnpackFeeConfigInput(call.input).feeConfig
    /\ FeeConfigVerify(GetStoredFeeConfig(stateDB)) = NoErr

\* C2: a setFeeConfig call by a caller whose stored role is Enabled or Admin
\* succeeds with an empty output when its input is 256 bytes that decode to
\* a valid record, suppliedGas >= SetFeeConfigGasCost, readOnly = false and
\* the host supplies a block number.
C2_EnabledCallerSucceeds ==
    ( /\ call.op = "setFeeConfig"
      /\ CallerRole \in {AllowListEnabled, AllowListAdmin}
      /\ ValidInput(call.input)
      /\ call.suppliedGas >= SetFeeConfigGasCost
      /\ ~call.readOnly
      /\ call.blockNumber # Nil )
    => (res.err = NoErr /\ res.ret = <<>>)

\* an Enabled (not Admin) caller succeeded with exactly the required gas
C2_Witness ==
    /\ call.op = "setFeeConfig"
    /\ CallerRole = AllowListEnabled
    /\ ValidInput(call.input)
    /\ call.suppliedGas = SetFeeConfigGasCost
    /\ ~call.readOnly
    /\ call.blockNumber # Nil
    /\ res.err = NoErr
    /\ res.ret = <<>>
    /\ res.remainingGas = 0

\* C3: once a setFeeConfig (or Configure) has succeeded at block number N,
\* every successful getFeeConfigLastChangedAt returns N as a 32-byte word,
\* whatever calls came in between, until the next successful setFeeConfig
\* or Configure.
C3_LastChangedAtIsLastSuccess ==
    ( /\ call.op = "getFeeConfigLastChangedAt"
      /\ res.err = NoErr
      /\ lastSuccessAt # Nil )
    => res.ret = BigToHash(lastSuccessAt)

\* the getter returned the block number of a successful setFeeConfig
C3_Witness ==
    /\ call.op = "getFeeConfigLastChangedAt"
    /\ res.err = NoErr
    /\ lastSuccessAt = FromNat(MaxBlock)
    /\ res.ret = BigToHash(FromNat(MaxBlock))
    /\ GetStoredFeeConfig(stateDB) = UnpackFeeConfigInput(packOrderedHashes(BaseWords)).feeConfig


\* C4: right after a successful setFeeConfig, getFeeConfig returns the
\* 256 bytes of the input of that call, word for word.
C4_GetReturnsInput ==
    (call.op = "setFeeConfig" /\ res.err = NoErr)
    => getFeeConfig(stateDB, Nil, call.caller, <<>>, GetFeeConfigGasCost, FALSE).ret
         = call.input

\* C5 as claimed: every setFeeConfig call with readOnly = true fails with
\* ErrWriteProtection, whatever the caller, input and supplied gas, and
\* leaves the fee config slots and the last-changed-at slot unchanged.
C5_ReadOnlyAlwaysWriteProtection ==
    (call.op = "setFeeConfig" /\ call.readOnly)
    => (res.err = ErrWriteProtection /\ FeeConfigSlotsUnchanged)

\* C5 as amended: every setFeeConfig call with readOnly = true fails and
\* leaves the fee config slots and the last-changed-at slot unchanged; it
\* fails with ErrWriteProtection when suppliedGas >= SetFeeConfigGasCost,
\* whatever the caller and input, and with out of gas when suppliedGas is
\* less.
C5_ReadOnlyFails ==
    (call.op = "setFeeConfig" /\ call.readOnly)
    => /\ FeeConfigSlotsUnchanged
       /\ call.suppliedGas >= SetFeeConfigGasCost => res.err = ErrWriteProtection
       /\ call.suppliedGas < SetFeeConfigGasCost => res.err = ErrOutOfGas

\* a read-only call that would have succeeded otherwise was turned away
C5_Witness ==
    /\ call.op = "setFeeConfig"
    /\ call.readOnly
    /\ CallerRole = AllowListAdmin
    /\ ValidInput(call.input)
    /\ call.suppliedGas >= SetFeeConfigGasCost
    /\ call.blockNumber # Nil
    /\ res.err = ErrWriteProtection
    /\ GetStoredFeeConfig(stateDB) # UnpackFeeConfigInput(call.input).feeConfig

\* C6: every setFeeConfig call that returns an error leaves every storage
\* slot of the contract as it was before the call.
C6_FailureLeavesState ==
    (call.op = "setFeeConfig" /\ res.err # NoErr) => stateDB = prev

Handlers == {"setFeeConfig", "getFeeConfig", "getFeeConfigLastChangedAt"}

\* the fixed cost of a handler, in slots read or written
HandlerCost(op) ==
    CASE op = "setFeeConfig" -> 9 * writeGasCostPerSlot
      [] op = "getFeeConfig" -> 8 * readGasCostPerSlot
      [] op = "getFeeConfigLastChangedAt" -> 1 * readGasCostPerSlot

\* C7: a call of setFeeConfig, getFeeConfig or getFeeConfigLastChangedAt
\* with less gas than the handler's cost fails with out of gas, remaining
\* gas 0 and nil output, and changes no slot, whatever the caller, its role,
\* the input and the read-only flag.
C7_OutOfGas ==
    (call.op \in Handlers /\ call.suppliedGas < HandlerCost(call.op))
    => /\ res.err = ErrOutOfGas
       /\ res.remainingGas = 0
       /\ res.ret = Nil
       /\ stateDB = prev

\* a read-only call of an admin with a valid input ran out of gas
C7_Witness ==
    /\ call.op = "setFeeConfig"
    /\ call.suppliedGas = SetFeeConfigGasCost - 1
    /\ call.readOnly
    /\ CallerRole = AllowListAdmin
    /\ ValidInput(call.input)
    /\ res.err = ErrOutOfGas
    /\ res.remainingGas = 0

\* C8: for every call of the three handlers remainingGas <= suppliedGas,
\* and on success remainingGas = suppliedGas - cost, the cost being
\* 9 x writeGasCostPerSlot, 8 x readGasCostPerSlot and 1 x readGasCostPerSlot.
C8_GasMonotone ==
    call.op \in Handlers
    => /\ res.remainingGas <= call.suppliedGas
       /\ res.err = NoErr => res.remainingGas = call.suppliedGas - HandlerCost(call.op)

\* a successful setFeeConfig gave back the gas beyond its cost
C8_Witness ==
    /\ call.op = "setFeeConfig"
    /\ res.err = NoErr
    /\ call.suppliedGas > 9 * writeGasCostPerSlot
    /\ res.remainingGas = call.suppliedGas - 9 * writeGasCostPerSlot
    /\ res.remainingGas > 0

\* the word is a value of 2^64 or more
Over64(word) == \E j \in 1..(HashLength - Uint64Length) : word[j] # 0

\* C9: a 256-byte input whose second word is 2^64 or more is rejected by
\* UnpackFeeConfigInput, and by setFeeConfig without a targetBlockRate
\* being stored.
C9_TargetBlockRateRangeChecked ==
    ( /\ call.op \in {"UnpackFeeConfigInput", "setFeeConfig"}
      /\ Len(call.input) = feeConfigInputLen
      /\ Over64(returnPackedHash(call.input, targetBlockRateKey - 1)) )
    => /\ res.err # NoErr
       /\ stateDB[FieldKey(targetBlockRateKey)] = prev[FieldKey(targetBlockRateKey)]

\* C10: UnpackFeeConfigInput returns an error and the empty record for
\* every input whose length is not 256 bytes and no error for every input
\* of 256 bytes; setFeeConfig returns that error and writes nothing.
C10_LengthGuard ==
    /\ call.op = "UnpackFeeConfigInput"
       => /\ Len(call.input) # 8 * 32
             => (res.err = ErrInvalidInputLength /\ res.feeConfig = EmptyFeeConfig)
          /\ Len(call.input) = 8 * 32 => res.err = NoErr
    /\ (call.op = "setFeeConfig" /\ Len(call.input) # 8 * 32)
       => /\ res.err # NoErr
          /\ stateDB = prev
          /\ (call.suppliedGas >= SetFeeConfigGasCost /\ ~call.readOnly)
             => res.err = ErrInvalidInputLength

\* an input one byte too long was rejected by setFeeConfig called by an admin
C10_Witness ==
    /\ call.op = "setFeeConfig"
    /\ Len(call.input) = 8 * 32 + 1
    /\ CallerRole = AllowListAdmin
    /\ call.blockNumber # Nil
    /\ res.err = ErrInvalidInputLength
    /\ stateDB = prev


\* C11: for every record whose big fields are below 2^256 and whose
\* targetBlockRate is below 2^64, unpacking the packed record gives the
\* record back, field by field and in the field order gasLimit,
\* targetBlockRate, minBaseFee, targetGas, baseFeeChangeDenominator,
\* minBlockGasCost, maxBlockGasCost, blockGasCostStep; PackSetFeeConfig is
\* the setFeeConfig selector followed by the packed record.
C11_RoundTrip ==
    call.op = "PackFeeConfig"
    => LET r == call.feeConfig
           packed == SubSeq(res.ret, Len(setFeeConfigSignature) + 1, Len(res.ret))
       IN  /\ res.err = NoErr
           /\ res.feeConfig = r
           /\ SubSeq(res.ret, 1, 4) = setFeeConfigSignature
           /\ packed = PackFeeConfig(r)
           /\ Len(packed) = 8 * 32
           /\ HashBig(returnPackedHash(packed, 0)) = r.GasLimit
           /\ HashBig(returnPackedHash(packed, 1)) = r.TargetBlockRate
           /\ HashBig(returnPackedHash(packed, 2)) = r.MinBaseFee
           /\ HashBig(returnPackedHash(packed, 3)) = r.TargetGas
           /\ HashBig(returnPackedHash(packed, 4)) = r.BaseFeeChangeDenominator
           /\ HashBig(returnPackedHash(packed, 5)) = r.MinBlockGasCost
           /\ HashBig(returnPackedHash(packed, 6)) = r.MaxBlockGasCost
           /\ HashBig(returnPackedHash(packed, 7)) = r.BlockGasCostStep

\* a record of eight different values, the largest ones, came back
C11_Witness ==
    /\ call.op = "PackFeeConfig"
    /\ call.feeConfig.GasLimit = MaxBytes(HashLength)
    /\ call.feeConfig.TargetBlockRate = MaxBytes(Uint64Length)
    /\ res.feeConfig = call.feeConfig
    /\ res.err = NoErr


\* some address is in the admin list and in the enabled list
InBothLists(c) == Members(c.AllowListAdmins) \cap Members(c.EnabledAddresses) # {}

\* the record Configure is to store
RecordToStore ==
    IF call.config.InitialFeeConfig # <<>> THEN call.config.InitialFeeConfig[1]
    ELSE call.chainFeeConfig

\* C12: after a successful Configure of a config whose lists share no
\* address, every address of the admin list has role Admin, every address
\* of the enabled list has role Enabled, and the stored fee config is the
\* explicit InitialFeeConfig if there is one and the chain's fee config
\* otherwise.
C12_Activation ==
    (call.op = "Configure" /\ res.err = NoErr /\ ~InBothLists(call.config))
    => /\ \A a \in Members(call.config.AllowListAdmins) :
            GetFeeConfigManagerStatus(stateDB, a) = AllowListAdmin
       /\ \A b \in Members(call.config.EnabledAddresses) :
            GetFeeConfigManagerStatus(stateDB, b) = AllowListEnabled
       /\ GetStoredFeeConfig(stateDB) = RecordToStore

\* admin A, enabled B and an explicit initial fee config were activated
C12_Witness ==
    /\ call.op = "Configure"
    /\ res.err = NoErr
    /\ call.config.AllowListAdmins = <<AddrA>>
    /\ call.config.EnabledAddresses = <<AddrB>>
    /\ call.config.InitialFeeConfig = <<OtherFeeConfig>>
    /\ GetFeeConfigManagerStatus(stateDB, AddrA) = AllowListAdmin
    /\ GetFeeConfigManagerStatus(stateDB, AddrB) = AllowListEnabled
    /\ GetFeeConfigManagerStatus(prev, AddrA) = AllowListNoRole
    /\ GetStoredFeeConfig(stateDB) = OtherFeeConfig

\* C13: Verify of a config in which some address is in the admin list and
\* in the enabled list returns the allow list's error, whatever the initial
\* fee config is, and writes nothing.
C13_RolePartition ==
    (call.op = "Verify" /\ InBothLists(call.config))
    => (res.err = ErrBothAdminAndEnabled /\ stateDB = prev)

\* a config with an address in both lists and an invalid initial fee config was rejected
C13_Witness ==
    /\ call.op = "Verify"
    /\ InBothLists(call.config)
    /\ call.config.InitialFeeConfig = <<BadFeeConfig>>
    /\ res.err = ErrBothAdminAndEnabled
    /\ stateDB # EmptyStateDB

\* C14: when Verify returns nil for a config, the validation of the record
\* that Configure stores does not fail: Configure succeeds, or fails for
\* the missing block number only, after the record went into the field
\* slots.
C14_VerifyCoversConfigure ==
    (call.op = "Configure" /\ Verify(call.config) = NoErr)
    => /\ FeeConfigVerify(RecordToStore) = NoErr
       /\ res.err = NoErr \/ call.blockNumber = Nil
       /\ GetStoredFeeConfig(stateDB) = RecordToStore

\* a verified config with an explicit initial fee config was activated
C14_Witness ==
    /\ call.op = "Configure"
    /\ Verify(call.config) = NoErr
    /\ call.config.InitialFeeConfig = <<OtherFeeConfig>>
    /\ call.blockNumber # Nil
    /\ res.err = NoErr
    /\ GetStoredFeeConfig(prev) # OtherFeeConfig


\* C15: Equal(c, other) is true exactly when other is a
\* FeeConfigManagerConfig with the same activation timestamp, the same
\* disabled flag, the same admins and enabled addresses and the same initial
\* fee config, two absent ones being the same and an absent one differing
\* from a present one; Equal is reflexive and symmetric.
C15_Equal ==
    call.op = "Equal"
    => /\ res.equal <=>
            /\ call.other.Type = FeeConfigManagerConfigType
            /\ call.c.BlockTimestamp = call.other.BlockTimestamp
            /\ call.c.Disable = call.other.Disable
            /\ Members(call.c.AllowListAdmins) = Members(call.other.AllowListAdmins)
            /\ Members(call.c.EnabledAddresses) = Members(call.other.EnabledAddresses)
            /\ call.c.InitialFeeConfig = call.other.InitialFeeConfig
       /\ call.c = call.other => res.equal
       /\ call.other.Type = FeeConfigManagerConfigType
            => res.equal = Equal(call.other, call.c)

\* a config without initial fee config differs from one that has one
C15_Witness ==
    /\ call.op = "Equal"
    /\ call.other.Type = FeeConfigManagerConfigType
    /\ UpgradeableConfigEqual(call.c, call.other)
    /\ AllowListConfigEqual(call.c, call.other)
    /\ call.c.AllowListAdmins # call.other.AllowListAdmins
    /\ call.c.InitialFeeConfig = <<>>
    /\ call.other.InitialFeeConfig # <<>>
    /\ ~res.equal


\* addresses whose bytes resemble the keys of the fee config slots
ProbeAddresses ==
    Addresses \cup
    { [i \in 1..AddressLength |-> IF i = 1 THEN 1 ELSE 0],
      [i \in 1..AddressLength |-> IF i = 1 THEN 8 ELSE 0],
      [i \in 1..AddressLength |->
          IF i = 1 THEN 108 ELSE IF i = 2 THEN 99 ELSE IF i = 3 THEN 97 ELSE 0],
      [i \in 1..AddressLength |-> 0],
      [i \in 1..AddressLength |-> 255] }

\* the key the storage layout gives field i: first byte i, the rest zero
LayoutKey(i) == [j \in 1..32 |-> IF j = 1 THEN i ELSE 0]

\* the roles of all addresses are as before the call
RolesUnchanged ==
    \A a \in Addresses :
        GetFeeConfigManagerStatus(stateDB, a) = GetFeeConfigManagerStatus(prev, a)

\* C16: the slot keys of the eight fields, of last changed at and of the
\* roles are pairwise distinct; a change of an address's role leaves the
\* stored fee config and last changed at as they were, and a successful
\* setFeeConfig changes no role and puts each field into its own slot.
C16_NoAliasing ==
    /\ Cardinality(StorageKeys) = 8 + 1 + Cardinality(Addresses)
    /\ \A a \in ProbeAddresses : AddressHash(a) \notin FeeConfigSlots
    /\ \A i \in 1..8 : FieldKey(i) = LayoutKey(i)
    /\ call.op = "SetFeeConfigManagerStatus"
       => /\ FeeConfigSlotsUnchanged
          /\ GetFeeConfigManagerStatus(stateDB, call.address) = call.role
          /\ \A a \in Addresses \ {call.address} :
                GetFeeConfigManagerStatus(stateDB, a) = GetFeeConfigManagerStatus(prev, a)
    /\ (call.op = "setFeeConfig" /\ res.err = NoErr)
       => /\ RolesUnchanged
          /\ \A i \in 1..8 :
                stateDB[LayoutKey(i)] =
                    BigToHash(UnpackField(call.input, i))

\* the role of an address changed on a contract that holds a fee config
C16_Witness ==
    /\ call.op = "SetFeeConfigManagerStatus"
    /\ GetFeeConfigManagerStatus(prev, call.address) = AllowListAdmin
    /\ call.role = AllowListNoRole
    /\ GetFeeConfigManagerStatus(stateDB, call.address) = AllowListNoRole
    /\ FeeConfigVerify(GetStoredFeeConfig(stateDB)) = NoErr
    /\ GetFeeConfigLastChangedAt(stateDB) # Big0


\* C17: a setFeeConfig call with enough gas, not read-only, with an input
\* of the right length that decodes to a valid record, from a caller with a
\* role, but without a block number, fails with the missing block number
\* error and returns the supplied gas less SetFeeConfigGasCost.
C17_MissingBlockNumber ==
    ( /\ call.op = "setFeeConfig"
      /\ call.suppliedGas >= SetFeeConfigGasCost
      /\ ~call.readOnly
      /\ ValidInput(call.input)
      /\ IsEnabled(CallerRole)
      /\ call.blockNumber = Nil )
    => /\ res.err = ErrBlockNumberNil
       /\ res.remainingGas = call.suppliedGas - SetFeeConfigGasCost

\* a call that passes every check was made without a block number
C17_Witness ==
    /\ call.op = "setFeeConfig"
    /\ call.suppliedGas > SetFeeConfigGasCost
    /\ ~call.readOnly
    /\ ValidInput(call.input)
    /\ IsEnabled(CallerRole)
    /\ call.blockNumber = Nil
    /\ res.err = ErrBlockNumberNil
    /\ res.remainingGas > 0

Getters == {"getFeeConfig", "getFeeConfigLastChangedAt"}

\* C18: getFeeConfig and getFeeConfigLastChangedAt, given enough gas,
\* succeed for every caller and for read-only calls, and whether they
\* succeed or fail they leave every storage slot as it was.
C18_GettersReadOnlySafe ==
    call.op \in Getters
    => /\ stateDB = prev
       /\ call.suppliedGas >= HandlerCost(call.op)
          => /\ res.err = NoErr
             /\ res.remainingGas = call.suppliedGas - HandlerCost(call.op)

\* a caller without a role read the stored fee config in a read-only call
C18_Witness ==
    /\ call.op = "getFeeConfig"
    /\ call.readOnly
    /\ CallerRole = AllowListNoRole
    /\ res.err = NoErr
    /\ res.ret = PackFeeConfig(GetStoredFeeConfig(prev))
    /\ FeeConfigVerify(GetStoredFeeConfig(prev)) = NoErr

\* C19: as long as no Configure and no setFeeConfig has succeeded, the
\* stored last changed at is zero and getFeeConfigLastChangedAt returns
\* zero, whatever failing calls, getter calls and role changes came before.
C19_ZeroIfNeverSet ==
    lastSuccessAt = Nil
    => /\ GetFeeConfigLastChangedAt(stateDB) = Big0
       /\ (call.op = "getFeeConfigLastChangedAt" /\ res.err = NoErr)
          => res.ret = ZeroHash

\* last changed at was read after a failed setFeeConfig had written fields
\* and a role had been set, and before any successful change
C19_Witness ==
    /\ lastSuccessAt = Nil
    /\ call.op = "getFeeConfigLastChangedAt"
    /\ res.err = NoErr
    /\ res.ret = ZeroHash
    /\ \E i \in 1..numFeeConfigField : stateDB[FieldKey(i)] # ZeroHash
    /\ \E a \in Addresses : GetFeeConfigManagerStatus(stateDB, a) # AllowListNoRole


\* the selector and the function input of the call of the contract
CallSelector == SubSeq(call.input, 1, 4)

CallFunctionInput == SubSeq(call.input, 5, Len(call.input))

\* the result and the storage of the call are those of the handler's result r
RoutedTo(r) ==
    /\ res.ret = r.ret
    /\ res.remainingGas = r.remainingGas
    /\ res.err = r.err
    /\ stateDB = r.stateDB

\* C20: the contract has no fallback and has the four allow list functions
\* and setFeeConfig, getFeeConfig and getFeeConfigLastChangedAt; a call
\* whose selector is none of theirs fails with method not found and leaves
\* the storage as it was, and a call with the selector of one of the three
\* gets the result of that handler on the rest of the input.
C20_Dispatch ==
    /\ createFeeConfigManagerPrecompile.fallback = <<>>
    /\ Len(createFeeConfigManagerPrecompile.functions) = 7
    /\ {f.selector : f \in Members(createFeeConfigManagerPrecompile.functions)}
         = {setAdminSignature, setEnabledSignature, setNoneSignature,
            readAllowListSignature, setFeeConfigSignature, getFeeConfigSignature,
            getFeeConfigLastChangedAtSignature}
    /\ call.op = "Run"
       => /\ CallSelector \notin
                {f.selector : f \in Members(createFeeConfigManagerPrecompile.functions)}
             => res.err = ErrMethodNotFound /\ stateDB = prev
          /\ CallSelector = setFeeConfigSignature
             => RoutedTo(setFeeConfig(prev, call.blockNumber, call.caller,
                                      CallFunctionInput, call.suppliedGas,
                                      call.readOnly))
          /\ CallSelector = getFeeConfigSignature
             => RoutedTo(getFeeConfig(prev, call.blockNumber, call.caller,
                                      CallFunctionInput, call.suppliedGas,
                                      call.readOnly))
          /\ CallSelector = getFeeConfigLastChangedAtSignature
             => RoutedTo(getFeeConfigLastChangedAt(prev, call.blockNumber, call.caller,
                                                   CallFunctionInput, call.suppliedGas,
                                                   call.readOnly))
          /\ CallSelector = setAdminSignature
             => RoutedTo(writeAllowList(AllowListAdmin, prev, call.caller,
                                        CallFunctionInput, call.suppliedGas,
                                        call.readOnly))

\* a call with a selector of no function, made by a caller with a role, with
\* gas and an input that setFeeConfig would have stored, failed and wrote nothing
C20_Witness ==
    /\ call.op = "Run"
    /\ CallSelector = <<143, 16, 181, 135>>
    /\ IsEnabled(CallerRole)
    /\ ~call.readOnly
    /\ call.suppliedGas >= SetFeeConfigGasCost
    /\ ValidInput(CallFunctionInput)
    /\ setFeeConfig(prev, call.blockNumber, call.caller, CallFunctionInput,
                    call.suppliedGas, call.readOnly).stateDB # prev
    /\ res.err = ErrMethodNotFound
    /\ stateDB = prev


\* the cost of the handler of the call, and whether it may write
WriteProtectedCall ==
    \/ call.op = "setFeeConfig"
    \/ call.op = "templateFunction" /\ ~call.method.IsConstant
    \/ call.op = "templateFallback"

WriteProtectedCost ==
    IF call.op = "setFeeConfig" THEN SetFeeConfigGasCost ELSE call.method.GasCost

\* C21: a read-only call of setFeeConfig, of a non-constant handler of
\* the template or of its fallback, made with at least the gas the handler
\* costs, fails with write protection whatever the caller, the input and
\* the storage, returns the supplied gas less the cost, and writes nothing.
C21_ReadOnlyAfterGas ==
    (WriteProtectedCall /\ call.readOnly /\ call.suppliedGas >= WriteProtectedCost)
    => /\ res.err = ErrWriteProtection
       /\ res.remainingGas = call.suppliedGas - WriteProtectedCost
       /\ stateDB = prev

\* a read-only setFeeConfig with an input of the wrong length and gas to
\* spare, by a caller without a role, failed with write protection
C21_Witness ==
    /\ call.op = "setFeeConfig"
    /\ call.readOnly
    /\ call.suppliedGas > SetFeeConfigGasCost
    /\ Len(call.input) # feeConfigInputLen
    /\ CallerRole = AllowListNoRole
    /\ res.err = ErrWriteProtection
    /\ res.remainingGas = call.suppliedGas - SetFeeConfigGasCost
    /\ res.remainingGas > 0


\* C22: a setFeeConfig call that is not read-only, has enough gas and comes
\* from a caller whose role is None fails with ErrCannotChangeFee whatever
\* the length of its input, so that an input length error is only ever
\* reported to a caller that is enabled or admin.
C22_PermissionBeforeDecode ==
    ( /\ call.op = "setFeeConfig"
      /\ ~call.readOnly
      /\ call.suppliedGas >= SetFeeConfigGasCost
      /\ CallerRole = AllowListNoRole )
    => /\ res.err = ErrCannotChangeFee
       /\ res.err # ErrInvalidInputLength


\* C23: under SpecRoles, a setFeeConfig with a valid input, enough gas, a
\* block number and readOnly = false fails with ErrCannotChangeFee when the
\* role the host gave the caller last is None, and succeeds when it is
\* Enabled or Admin, however the caller's earlier setFeeConfig ended; the
\* role the call reads is the role given last.
C23_RolesNotCached ==
    ( /\ call.op = "setFeeConfig"
      /\ ValidInput(call.input)
      /\ call.suppliedGas >= SetFeeConfigGasCost
      /\ ~call.readOnly
      /\ call.blockNumber # Nil )
    => /\ CallerRole = assigned[call.caller]
       /\ \A earlier \in {"none", "succeeded", "unauthorized"} :
             outcome[call.caller] = earlier
             => /\ assigned[call.caller] = AllowListNoRole
                   => res.err = ErrCannotChangeFee
                /\ IsEnabled(assigned[call.caller]) => res.err = NoErr

\* an address whose setFeeConfig had succeeded lost its role, and its next
\* setFeeConfig failed, while the other address, turned away before, was
\* given a role
C23_Witness ==
    /\ call.op = "setFeeConfig"
    /\ ValidInput(call.input)
    /\ outcome[call.caller] = "succeeded"
    /\ assigned[call.caller] = AllowListNoRole
    /\ res.err = ErrCannotChangeFee
    /\ \E a \in Addresses \ {call.caller} :
          outcome[a] = "unauthorized" /\ IsEnabled(assigned[a])


\* the stored record passes the validation of fee configs
StoredValid(db) == FeeConfigVerify(GetStoredFeeConfig(db)) = NoErr

\* C24: once a Configure or a setFeeConfig has succeeded, the record that
\* GetStoredFeeConfig returns passes the validation in every state, whatever
\* setFeeConfig calls (successful or failing), getter calls, role changes and
\* activations follow; before that the slots hold no record or a valid one.
C24_StoredRecordValid ==
    /\ lastSuccessAt # Nil => StoredValid(stateDB)
    /\ (call.op = "Configure" /\ res.err = NoErr) => StoredValid(stateDB)
    /\ StoredValid(prev) => StoredValid(stateDB)
    /\ StoredValid(stateDB) \/ \A k \in FieldKeys : stateDB[k] = ZeroHash

\* a caller with a role offered a record that fails the validation to a
\* contract that held a valid record; the call failed and the record stayed
C24_Witness ==
    /\ call.op = "setFeeConfig"
    /\ lastSuccessAt # Nil
    /\ StoredValid(prev)
    /\ IsEnabled(CallerRole)
    /\ ~call.readOnly
    /\ call.suppliedGas >= SetFeeConfigGasCost
    /\ call.blockNumber # Nil
    /\ Len(call.input) = feeConfigInputLen
    /\ ~ValidInput(call.input)
    /\ res.err = ErrInvalidFeeConfig
    /\ GetStoredFeeConfig(stateDB) = GetStoredFeeConfig(prev)
    /\ StoredValid(stateDB)


\* one of the eight slots of the stored fee config differs from before the call
FieldSlotsChanged == \E k \in FieldKeys : stateDB[k] # prev[k]

\* C25: whenever a call made at a block number, a Configure or a
\* setFeeConfig, succeeding or failing, leaves one of the eight slots of the
\* fee config different from before, the last changed at slot holds that
\* block number after the call; no other operation changes the eight slots.
C25_LastChangedAtTracksChanges ==
    /\ (FieldSlotsChanged /\ call.blockNumber # Nil)
       => stateDB[feeConfigLastChangedAtKey] = BigToHash(call.blockNumber)
    /\ FieldSlotsChanged => call.op \in {"setFeeConfig", "Configure", "Run"}

\* a setFeeConfig replaced a record stored at an earlier block, and last
\* changed at moved to the block of the call
C25_Witness ==
    /\ call.op = "setFeeConfig"
    /\ res.err = NoErr
    /\ FieldSlotsChanged
    /\ GetFeeConfigLastChangedAt(prev) # Big0
    /\ GetFeeConfigLastChangedAt(prev) # call.blockNumber
    /\ GetFeeConfigLastChangedAt(stateDB) = call.blockNumber

\* C26: a successful Configure at block number N leaves the initial fee
\* config stored and last changed at equal to N in the same step, so that a
\* getFeeConfigLastChangedAt on the storage it leaves returns N.
C26_ActivationIsAChange ==
    (call.op = "Configure" /\ res.err = NoErr)
    => /\ call.blockNumber # Nil
       /\ GetFeeConfigLastChangedAt(stateDB) = call.blockNumber
       /\ GetStoredFeeConfig(stateDB) = RecordToStore
       /\ getFeeConfigLastChangedAt(stateDB, Nil, AddrA, <<>>,
                                    GetLastChangedAtGasCost, FALSE).ret
            = BigToHash(call.blockNumber)
       /\ getFeeConfigLastChangedAt(stateDB, Nil, AddrA, <<>>,
                                    GetLastChangedAtGasCost, FALSE).err = NoErr

\* the first activation of the contract, at a block number past the first:
\* last changed at went from zero to that block number
C26_Witness ==
    /\ call.op = "Configure"
    /\ res.err = NoErr
    /\ GetFeeConfigLastChangedAt(prev) = Big0
    /\ \A k \in FieldKeys : prev[k] = ZeroHash
    /\ call.blockNumber = FromNat(MaxBlock)
    /\ stateDB[feeConfigLastChangedAtKey] = BigToHash(FromNat(MaxBlock))
    /\ stateDB[feeConfigLastChangedAtKey] # ZeroHash

\* C27: a Configure whose fee config is not stored, because the record fails
\* the validation or because there is no block number, returns an error
\* and leaves the role of every address as it was.
C27_RolesAfterStore ==
    (call.op = "Configure" /\ res.err # NoErr)
    => /\ RolesUnchanged
       /\ \/ FeeConfigVerify(RecordToStore) # NoErr
          \/ call.blockNumber = Nil
       /\ res.err \in {ErrInvalidInitialFeeConfig, ErrInvalidChainFeeConfig}

\* an activation that names an admin without a role failed, and the admin
\* still has no role
C27_Witness ==
    /\ call.op = "Configure"
    /\ res.err # NoErr
    /\ call.config.AllowListAdmins # <<>>
    /\ \A i \in 1..Len(call.config.AllowListAdmins) :
          /\ GetFeeConfigManagerStatus(prev, call.config.AllowListAdmins[i])
               = AllowListNoRole
          /\ GetFeeConfigManagerStatus(stateDB, call.config.AllowListAdmins[i])
               = AllowListNoRole
    /\ FeeConfigVerify(RecordToStore) # NoErr

====
